---- MODULE Spec2Model ----
(***************************************************************************)
(* Model of src/index.tsx ("El Consejero del Ingenio"): the persistent     *)
(* memory kept in localStorage, the GeminiService session (mode and        *)
(* rolling history) and the App component's handlers, as a state machine.  *)
(*                                                                         *)
(* Texts are sequences of one-character strings, so that concatenation     *)
(* and trim are computed.  Timestamps (lastUpdated, Message.timestamp) are *)
(* not modelled: no handler reads them back.                               *)
(***************************************************************************)
EXTENDS Naturals, Sequences, FiniteSets

VARIABLES
    stored,            \* localStorage[MEMORY_KEY]: <<>> (no item) or <<memory>>
    memory,            \* App state `memory` (what the sidebar shows)
    messages,          \* App state `messages`: the transcript
    input,             \* App state `input`: the textarea's text
    isLoading,         \* App state `isLoading`
    isProcessingFile,  \* App state `isProcessingFile`
    currentMode,       \* App state `currentMode` (the mode the UI shows)
    svcMode,           \* counselor.currentMode
    history,           \* counselor.history
    sends,             \* handleSend invocations suspended in their stream or extraction
    uploads,           \* FileReader reads in progress, each with the closure of its onload
    now                \* Date.now()

vars == <<stored, memory, messages, input, isLoading, isProcessingFile,
          currentMode, svcMode, history, sends, uploads, now>>

-----------------------------------------------------------------------------
(* Bounds of the model. *)

MaxMsgs == 4       \* the transcript is followed up to this length
MaxClock == 2      \* Date.now() is followed up to this value
MaxReply == 2      \* a reply stream is followed up to this many characters
MaxUploads == 1    \* file reads in progress at once

(* Program constants. *)

MemoryCap == 12    \* slice(-12)
HistoryCap == 20   \* history.length > 20, slice(-20)

AppModes == {"normal", "deep", "discretion"}

InitId == 0        \* the id 'init' of the first message; clock ids are >= 1

INITIAL_GREETING == <<"S">>
ErrorText == <<"E", "r", "r">>
UserTexts == {<<" ", "q">>}                \* what the user may type
Fragments == {<<>>, <<"a">>}               \* chunk.text || ""
TwoFragments == {<<"a">>, <<"b">>}         \* fragments that show their order
FileName == <<"f">>
ExtractLists == {<<>>, <<1>>}              \* what an extraction may return; 1, 2, ...
                                           \* stand for distinct strings

-----------------------------------------------------------------------------
(* Pure helpers. *)

Min(a, b) == IF a < b THEN a ELSE b

IsSpace(c) == c = " "

RECURSIVE TrimStart(_)
TrimStart(t) ==
    IF t = <<>> THEN <<>>
    ELSE IF IsSpace(Head(t)) THEN TrimStart(Tail(t)) ELSE t

RECURSIVE TrimEnd(_)
TrimEnd(t) ==
    IF t = <<>> THEN <<>>
    ELSE IF IsSpace(t[Len(t)]) THEN TrimEnd(SubSeq(t, 1, Len(t) - 1)) ELSE t

\* String.prototype.trim
Trim(t) == TrimEnd(TrimStart(t))

Elems(s) == {s[i] : i \in 1..Len(s)}

\* Array.from(new Set(s)): elements are inserted one by one, an element already
\* in the set is not inserted again, iteration is in insertion order
RECURSIVE SetInsertAll(_, _)
SetInsertAll(acc, s) ==
    IF s = <<>> THEN acc
    ELSE SetInsertAll(IF Head(s) \in Elems(acc) THEN acc ELSE Append(acc, Head(s)),
                      Tail(s))

\* a faulty variant: the array is not passed through a Set
ArrayFromSet_Keep(s) == s

ArrayFromSet(s) == SetInsertAll(<<>>, s)

\* a faulty variant: nothing is cut
SliceLast_NoCut(s, n) == s

\* a faulty variant: slice(0, n), the first n elements
SliceLast_First(s, n) == SubSeq(s, 1, Min(Len(s), n))

\* s.slice(-n)
SliceLast(s, n) == SubSeq(s, Len(s) - Min(Len(s), n) + 1, Len(s))

-----------------------------------------------------------------------------
(* Persistent memory (localStorage). *)

EmptyMemory == [facts |-> <<>>, preferences |-> <<>>]

getStoredMemory(item) == IF item = <<>> THEN EmptyMemory ELSE item[1]

saveMemory(m) == <<[facts |-> m.facts, preferences |-> m.preferences]>>

removeItem(item) == <<>>

updateMemoryFromText(item, newFacts, newPreferences) ==
    LET current == getStoredMemory(item)
        facts == SliceLast(ArrayFromSet(current.facts \o newFacts), MemoryCap)
        preferences ==
            SliceLast(ArrayFromSet(current.preferences \o newPreferences), MemoryCap)
    IN  saveMemory([facts |-> facts, preferences |-> preferences])

-----------------------------------------------------------------------------
(* GeminiService. *)

\* setMode: the history after the call (the mode after it is always `mode`)
setMode(cur, hist, mode) == IF cur # mode THEN <<>> ELSE hist

modelName(mode) == IF mode = "normal" THEN "flash" ELSE "pro"

\* getSystemInstruction: the base prompt is chosen by the mode, the memory
\* context is the stored memory when it has an entry
getSystemInstruction(mode, item) ==
    LET m == getStoredMemory(item)
    IN  [base |-> mode,
         memoryContext |-> IF Len(m.facts) > 0 \/ Len(m.preferences) > 0
                           THEN <<m>> ELSE <<>>]

\* an entry of counselor.history; parts are [filePart?, {text}]
UserEntry(text, filePart) == [role |-> "user", text |-> text, file |-> filePart]
ModelEntry(text) == [role |-> "model", text |-> text, file |-> FALSE]

\* sendMessageStream up to its first await: the user entry is pushed and the
\* request is built from the history as it is then
pushUser(hist, text, filePart) == Append(hist, UserEntry(text, filePart))

\* sendMessageStream after the last chunk: the model entry is pushed, then the
\* history is cut to its last 20 entries
truncate(hist) == IF Len(hist) > HistoryCap THEN SliceLast(hist, HistoryCap) ELSE hist

pushModel(hist, fullText) == truncate(Append(hist, ModelEntry(fullText)))

-----------------------------------------------------------------------------
(* App. *)

InitMessage ==
    [id |-> InitId, role |-> "assistant", content |-> INITIAL_GREETING, mode |-> "normal"]

Greeting(mode) == <<"_", mode>>

FileText == <<"A">> \o FileName          \* `Analiza este documento [name] ...`
FileDisplay == <<"D">> \o FileName       \* `[Documento adjunto: name]`

\* a faulty variant: the updated message is moved to the end of the transcript
SetContent_MoveLast(msgs, id, content) ==
    SelectSeq(msgs, LAMBDA m : m.id # id)
        \o [i \in 1..Len(SelectSeq(msgs, LAMBDA m : m.id = id)) |->
               [SelectSeq(msgs, LAMBDA m : m.id = id)[i] EXCEPT !.content = content]]

\* prev.map(m => m.id === id ? { ...m, content } : m)
SetContent(msgs, id, content) ==
    [i \in 1..Len(msgs) |->
        IF msgs[i].id = id THEN [msgs[i] EXCEPT !.content = content] ELSE msgs[i]]

\* the guard of handleSend, on what its closure sees
Accepts(textToSend, loadingSeen) == Trim(textToSend) # <<>> /\ ~loadingSeen

\* a faulty variant: the file part is not looked at
WantsExtraction_AnyFile(modeAtSend, filePart) == modeAtSend = "normal"

\* the extraction branch of handleSend
WantsExtraction(modeAtSend, filePart) == modeAtSend = "normal" /\ ~filePart

RemoveAt(s, i) == SubSeq(s, 1, i - 1) \o SubSeq(s, i + 1, Len(s))

Init ==
    /\ stored = <<>>
    /\ memory = getStoredMemory(stored)
    /\ messages = <<InitMessage>>
    /\ input = <<>>
    /\ isLoading = FALSE
    /\ isProcessingFile = FALSE
    /\ currentMode = "normal"
    /\ svcMode = "normal"
    /\ history = <<>>
    /\ sends = {}
    /\ uploads = <<>>
    /\ now = 1

\* time passes
Tick ==
    /\ now' = now + 1
    /\ UNCHANGED <<stored, memory, messages, input, isLoading, isProcessingFile,
                   currentMode, svcMode, history, sends, uploads>>

\* the textarea's onChange
SetInput(t) ==
    /\ input' = t
    /\ UNCHANGED <<stored, memory, messages, isLoading, isProcessingFile,
                   currentMode, svcMode, history, sends, uploads, now>>

handleSetMode(mode) ==
    /\ currentMode' = mode
    /\ svcMode' = mode
    /\ history' = setMode(svcMode, history, mode)
    /\ messages' = Append(messages,
           [id |-> now, role |-> "assistant", content |-> Greeting(mode), mode |-> mode])
    /\ UNCHANGED <<stored, memory, input, isLoading, isProcessingFile, sends,
                   uploads, now>>

\* handleSend past its guard, from the transcript, session mode and history
\* `msgs`, `svc`, `hist` it starts from: both messages are appended, the input is
\* cleared, the flag is set, and sendMessageStream runs to its first await
startSend(msgs, svc, hist, textToSend, messageToDisplay, filePart, modeAtSend) ==
    LET assistId == now + 1
        contents == pushUser(hist, textToSend, filePart)
    IN  /\ messages' = msgs \o
              << [id |-> now, role |-> "user", content |-> messageToDisplay,
                  mode |-> modeAtSend],
                 [id |-> assistId, role |-> "assistant", content |-> <<>>,
                  mode |-> modeAtSend] >>
        /\ input' = <<>>
        /\ isLoading' = TRUE
        /\ history' = contents
        /\ sends' = sends \cup
              {[idx |-> Len(msgs) + 2, assistId |-> assistId, modeAtSend |-> modeAtSend,
                filePart |-> filePart, userInput |-> textToSend,
                fullResponse |-> <<>>, fullText |-> <<>>, pc |-> "stream",
                request |-> [model |-> modelName(svc), contents |-> contents,
                             system |-> getSystemInstruction(svc, stored)]]}

\* handleSend() from the keyboard or the send button
handleSend ==
    /\ Accepts(input, isLoading)
    /\ startSend(messages, svcMode, history, input, input, FALSE, currentMode)
    /\ UNCHANGED <<stored, memory, isProcessingFile, currentMode, svcMode,
                   uploads, now>>

\* handleFileUpload with a file chosen: the read starts; its onload keeps the
\* closure of this render
handleFileUpload ==
    /\ ~isLoading /\ ~isProcessingFile
    /\ uploads' = Append(uploads, [currentMode |-> currentMode, isLoading |-> isLoading])
    /\ isProcessingFile' = FALSE
    /\ UNCHANGED <<stored, memory, messages, input, isLoading, currentMode,
                   svcMode, history, sends, now>>

\* reader.onload of the i-th read
readerOnload(i) ==
    LET c == uploads[i]
        switch == c.currentMode = "normal"
        msgs1 == IF switch
                 THEN Append(messages, [id |-> now, role |-> "assistant",
                                        content |-> Greeting("deep"), mode |-> "deep"])
                 ELSE messages
        svc1 == IF switch THEN "deep" ELSE svcMode
        hist1 == IF switch THEN setMode(svcMode, history, "deep") ELSE history
        mode1 == IF switch THEN "deep" ELSE currentMode
    IN  /\ i \in 1..Len(uploads)
        /\ uploads' = RemoveAt(uploads, i)
        /\ currentMode' = mode1
        /\ svcMode' = svc1
        /\ IF Accepts(FileText, c.isLoading)
           THEN startSend(msgs1, svc1, hist1, FileText, FileDisplay, TRUE, c.currentMode)
           ELSE /\ messages' = msgs1
                /\ history' = hist1
                /\ UNCHANGED <<input, isLoading, sends>>
        /\ UNCHANGED <<stored, memory, isProcessingFile, now>>

\* reader.onerror of the i-th read
readerOnerror(i) ==
    /\ i \in 1..Len(uploads)
    /\ uploads' = RemoveAt(uploads, i)
    /\ UNCHANGED <<stored, memory, messages, input, isLoading, isProcessingFile,
                   currentMode, svcMode, history, sends, now>>

\* one chunk of the stream of send s: the generator adds it to fullText and
\* yields it, handleSend adds it to fullResponse and shows it
streamChunk(s, text) ==
    LET s1 == [s EXCEPT !.fullText = @ \o text, !.fullResponse = @ \o text]
    IN  /\ s \in sends
        /\ s.pc = "stream"
        /\ sends' = (sends \ {s}) \cup {s1}
        /\ messages' = SetContent(messages, s.assistId, s1.fullResponse)
        /\ UNCHANGED <<stored, memory, input, isLoading, isProcessingFile,
                       currentMode, svcMode, history, uploads, now>>

\* the stream of send s ends: the model entry is pushed; handleSend goes on to
\* the extraction, or ends
streamEnd(s) ==
    /\ s \in sends
    /\ s.pc = "stream"
    /\ history' = pushModel(history, s.fullText)
    /\ IF WantsExtraction(s.modeAtSend, s.filePart)
       THEN /\ sends' = (sends \ {s}) \cup {[s EXCEPT !.pc = "extract"]}
            /\ UNCHANGED isLoading
       ELSE /\ sends' = sends \ {s}
            /\ isLoading' = FALSE
    /\ UNCHANGED <<stored, memory, messages, input, isProcessingFile,
                   currentMode, svcMode, uploads, now>>

\* a faulty variant: isLoading is not set back
streamError_NoFinally(s) ==
    /\ s \in sends
    /\ s.pc = "stream"
    /\ messages' = SetContent(messages, s.assistId, ErrorText)
    /\ sends' = sends \ {s}
    /\ UNCHANGED <<stored, memory, input, isLoading, isProcessingFile, currentMode,
                   svcMode, history, uploads, now>>

\* the request of send s is rejected, or its stream throws: catch, finally
streamError(s) ==
    /\ s \in sends
    /\ s.pc = "stream"
    /\ messages' = SetContent(messages, s.assistId, ErrorText)
    /\ sends' = sends \ {s}
    /\ isLoading' = FALSE
    /\ UNCHANGED <<stored, memory, input, isProcessingFile, currentMode, svcMode,
                   history, uploads, now>>

\* extractInsights of send s returns data; handleSend refreshes `memory`
extractInsights(s, facts, preferences) ==
    /\ s \in sends
    /\ s.pc = "extract"
    /\ stored' = IF Len(facts) > 0 \/ Len(preferences) > 0
                 THEN updateMemoryFromText(stored, facts, preferences)
                 ELSE stored
    /\ memory' = getStoredMemory(stored')
    /\ sends' = sends \ {s}
    /\ isLoading' = FALSE
    /\ UNCHANGED <<messages, input, isProcessingFile, currentMode, svcMode,
                   history, uploads, now>>

\* extractInsights of send s catches an error (the call, the JSON)
extractError(s) ==
    /\ s \in sends
    /\ s.pc = "extract"
    /\ memory' = getStoredMemory(stored)
    /\ sends' = sends \ {s}
    /\ isLoading' = FALSE
    /\ UNCHANGED <<stored, messages, input, isProcessingFile, currentMode,
                   svcMode, history, uploads, now>>

\* a faulty variant: the item is removed but `memory` is not refreshed
handleClearMemory_NoRefresh(confirmed) ==
    /\ Len(memory.facts) > 0 \/ Len(memory.preferences) > 0
    /\ IF confirmed THEN stored' = removeItem(stored) ELSE UNCHANGED stored
    /\ UNCHANGED <<memory, messages, input, isLoading, isProcessingFile, currentMode,
                   svcMode, history, sends, uploads, now>>

\* the trash button is rendered when the shown memory has an entry
handleClearMemory(confirmed) ==
    /\ Len(memory.facts) > 0 \/ Len(memory.preferences) > 0
    /\ IF confirmed
       THEN /\ stored' = removeItem(stored)
            /\ memory' = getStoredMemory(stored')
       ELSE UNCHANGED <<stored, memory>>
    /\ UNCHANGED <<messages, input, isLoading, isProcessingFile, currentMode,
                   svcMode, history, sends, uploads, now>>

\* handleReset: confirmed, the page reloads and every script state starts anew;
\* localStorage and the clock stay
handleReset(confirmed) ==
    /\ IF confirmed
       THEN /\ memory' = getStoredMemory(stored)
            /\ messages' = <<InitMessage>>
            /\ input' = <<>>
            /\ isLoading' = FALSE
            /\ isProcessingFile' = FALSE
            /\ currentMode' = "normal"
            /\ svcMode' = "normal"
            /\ history' = <<>>
            /\ sends' = {}
            /\ uploads' = <<>>
       ELSE UNCHANGED <<memory, messages, input, isLoading, isProcessingFile,
                        currentMode, svcMode, history, sends, uploads>>
    /\ UNCHANGED <<stored, now>>

\* the part of the state space that is followed
Within(maxMsgs, maxClock) ==
    /\ Len(messages') <= maxMsgs
    /\ now' <= maxClock
    /\ Len(uploads') <= MaxUploads
    /\ \A s \in sends' : Len(s.fullText) <= MaxReply

\* one step of the program, with the inputs drawn from the given sets
Step(texts, modes, fragments, lists, maxMsgs, maxClock) ==
    \/ Tick /\ Within(maxMsgs, maxClock)
    \/ \E t \in texts : SetInput(t)
    \/ \E mode \in modes : handleSetMode(mode) /\ Within(maxMsgs, maxClock)
    \/ handleSend /\ Within(maxMsgs, maxClock)
    \/ handleFileUpload /\ Within(maxMsgs, maxClock)
    \/ \E i \in 1..Len(uploads) : readerOnload(i) /\ Within(maxMsgs, maxClock)
    \/ \E i \in 1..Len(uploads) : readerOnerror(i)
    \/ \E s \in sends, text \in fragments :
          streamChunk(s, text) /\ Within(maxMsgs, maxClock)
    \/ \E s \in sends : streamEnd(s)
    \/ \E s \in sends : streamError(s)
    \/ \E s \in sends, f \in lists, p \in lists : extractInsights(s, f, p)
    \/ \E s \in sends : extractError(s)
    \/ \E ok \in BOOLEAN : handleClearMemory(ok)
    \/ \E ok \in BOOLEAN : handleReset(ok)

Next == Step(UserTexts, AppModes, Fragments, ExtractLists, MaxMsgs, MaxClock)

Spec == Init /\ [][Next]_vars

\* Overlapping sends: a file read that ends after a typed send has started.  Two
\* exchanges and a mode greeting fit the transcript; the other inputs are fewer.
RaceMsgs == 6

NextRace == Step(UserTexts, {"normal", "deep"}, TwoFragments, {<<1>>}, RaceMsgs, MaxClock)

SpecRace == Init /\ [][NextRace]_vars

\* the strings a, a+1, ..., b
Range(a, b) == [i \in 1..(b + 1 - a) |-> a + i - 1]

\* Memory updates: typed exchanges in normal mode whose extractions return lists
\* that fill the memory, overflow it, repeat a string and return stored strings.
MemMsgs == 5

MemLists ==
    {<<>>, <<1>>, <<MemoryCap + 1, MemoryCap + 1>>, <<1, MemoryCap + 1, MemoryCap + 2>>,
     Range(1, MemoryCap - 1), Range(1, MemoryCap + 1)}

NextMem ==
    \/ \E t \in UserTexts : SetInput(t)
    \/ handleSend /\ Within(MemMsgs, MaxClock)
    \/ \E s \in sends : streamChunk(s, <<"a">>) /\ Within(MemMsgs, MaxClock)
    \/ \E s \in sends : streamEnd(s)
    \/ \E s \in sends, f \in MemLists, p \in MemLists : extractInsights(s, f, p)
    \/ \E s \in sends : extractError(s)
    \/ \E ok \in BOOLEAN : handleClearMemory(ok)

SpecMem == Init /\ [][NextMem]_vars

\* A long session: the state after HistoryCap / 2 typed exchanges in normal mode,
\* sent at the times 1, 3, 5, ..., each answered "a", none leaving a memory.
FilledExchanges == HistoryCap \div 2

FilledMessages ==
    [i \in 1..(2 * FilledExchanges + 1) |->
        IF i = 1 THEN InitMessage
        ELSE IF i % 2 = 0
             THEN [id |-> i - 1, role |-> "user", content |-> <<" ", "q">>,
                   mode |-> "normal"]
             ELSE [id |-> i - 1, role |-> "assistant", content |-> <<"a">>,
                   mode |-> "normal"]]

FilledHistory ==
    [i \in 1..(2 * FilledExchanges) |->
        IF i % 2 = 1 THEN UserEntry(<<" ", "q">>, FALSE) ELSE ModelEntry(<<"a">>)]

InitHist ==
    /\ stored = <<>>
    /\ memory = getStoredMemory(stored)
    /\ messages = FilledMessages
    /\ input = <<>>
    /\ isLoading = FALSE
    /\ isProcessingFile = FALSE
    /\ currentMode = "normal"
    /\ svcMode = "normal"
    /\ history = FilledHistory
    /\ sends = {}
    /\ uploads = <<>>
    /\ now = 2 * FilledExchanges + 1

HistExtra == 4     \* messages followed beyond the filled transcript

HistMsgs == Len(FilledMessages) + HistExtra

HistClock == 2 * FilledExchanges + MaxClock

NextHist ==
    \/ Tick /\ Within(HistMsgs, HistClock)
    \/ \E t \in UserTexts : SetInput(t)
    \/ handleSend /\ Within(HistMsgs, HistClock)
    \/ \E s \in sends, text \in TwoFragments :
          streamChunk(s, text) /\ Within(HistMsgs, HistClock)
    \/ \E s \in sends : streamEnd(s)
    \/ \E s \in sends : streamError(s)
    \/ \E s \in sends : extractError(s)

SpecHist == InitHist /\ [][NextHist]_vars

-----------------------------------------------------------------------------
(* Claims checked under Spec. *)

Last(q) == q[Len(q)]

\* the exchange of send s was sent to the model in normal mode
SentInNormalMode(s) == s.request.system.base = "normal" /\ s.request.model = "flash"

\* C3: the extraction runs after each normal-mode exchange without a file, and
\* only then.  (1) A handleSend that is in its extraction belongs to an exchange
\* sent in normal mode without a file.  (2) A handleSend enters its extraction
\* only in the step that ends its reply stream and pushes the reply to the
\* history.  (3) The end of the stream of a normal-mode exchange without a file
\* starts its extraction.  (4) The stored memory changes only when such an
\* extraction returns, or when the memory is cleared.
C3_ExtractionOnlyAfterNormalExchange ==
    /\ [](\A s \in sends : s.pc = "extract" => SentInNormalMode(s) /\ ~s.filePart)
    /\ [][/\ \A s \in sends' :
                (s.pc = "extract" /\ s \notin sends) =>
                    \E t \in sends :
                        /\ t.pc = "stream" /\ t.idx = s.idx /\ t \notin sends'
                        /\ history' # <<>>
                        /\ Last(history') = [role |-> "model", text |-> t.fullText,
                                             file |-> FALSE]
          /\ \A t \in sends :
                (streamEnd(t) /\ SentInNormalMode(t) /\ ~t.filePart) =>
                    \E s \in sends' : s.idx = t.idx /\ s.pc = "extract"
          /\ stored' # stored =>
                \/ handleClearMemory(TRUE)
                \/ \E s \in sends \ sends' :
                      s.pc = "extract" /\ SentInNormalMode(s) /\ ~s.filePart
       ]_vars

\* C3 witness: an extraction is running for a normal-mode exchange whose reply
\* was streamed, while the UI has since moved to another mode
C3_Witness ==
    \E s \in sends :
        /\ s.pc = "extract" /\ s.fullResponse # <<>>
        /\ currentMode # "normal"

\* C4: a confirmed clear leaves the stored and the shown memory empty; a declined
\* one leaves both as they were
C4_ClearMemory ==
    [][/\ handleClearMemory(TRUE) =>
              /\ getStoredMemory(stored') = EmptyMemory
              /\ memory' = EmptyMemory
       /\ handleClearMemory(FALSE) => UNCHANGED <<stored, memory>>
      ]_vars

\* C4 witness: the memory was cleared while a request that carries the earlier
\* memory as its context is still in flight
C4_Witness ==
    /\ stored = <<>>
    /\ memory = EmptyMemory
    /\ \E s \in sends : s.request.system.memoryContext # <<>>

\* the messages of the transcript stay, in their order; only contents change
KeepsMessages ==
    /\ Len(messages') >= Len(messages)
    /\ \A i \in 1..Len(messages) :
          /\ messages'[i].id = messages[i].id
          /\ messages'[i].role = messages[i].role
          /\ messages'[i].mode = messages[i].mode

Appended == (Len(messages) + 1)..Len(messages')

\* the handleSend invocations that the step starts
Started == {s \in sends' : \A t \in sends : t.idx # s.idx}

\* C5: but for a reset, every step keeps the messages of the transcript in
\* their order, and a step appends a user message exactly when it starts a send,
\* which appends one user message and, right after it, its empty assistant
\* message, last in the transcript
C5_TranscriptAppendOnly ==
    [][\/ handleReset(TRUE)
       \/ /\ KeepsMessages
          /\ \A s \in Started :
                    /\ s.idx = Len(messages') /\ s.idx - 1 \in Appended
                    /\ messages'[s.idx - 1].role = "user"
                    /\ messages'[s.idx].role = "assistant"
                    /\ messages'[s.idx].content = <<>>
          /\ Cardinality({i \in Appended : messages'[i].role = "user"})
                = Cardinality(Started)
          /\ Cardinality({i \in Appended : messages'[i].role = "user"}) <= 1
      ]_vars

\* C5 witness: a file upload from normal mode has appended the greeting, the user
\* message and the assistant message, and a fragment has been shown
C5_Witness ==
    /\ Len(messages) = 4
    /\ messages[2].content = Greeting("deep")
    /\ messages[3].role = "user"
    /\ messages[4].role = "assistant" /\ messages[4].content # <<>>
    /\ \E s \in sends : s.idx = 4

\* C7: when the stream of a send fails, before or after fragments, the assistant
\* message of the send shows the error text, the stored and the shown memory are
\* as before, and isLoading is false, so that handleSend accepts a text
C7_StreamError ==
    [][\A s \in sends :
          streamError(s) =>
              /\ messages'[s.idx].content = ErrorText
              /\ stored' = stored /\ memory' = memory
              /\ isLoading' = FALSE
              /\ \A t \in UserTexts : Accepts(t, isLoading')
      ]_vars

\* C7 witness: the error text is shown for a send whose user entry is the last
\* of the history, and nothing is loading
C7_Witness ==
    /\ \E i \in 1..Len(messages) : messages[i].content = ErrorText
    /\ ~isLoading /\ sends = {}
    /\ history # <<>> /\ Last(history).role = "user"

\* C9 as claimed: the messages of a send carry the mode the session was in when
\* the exchange was sent (the mode that chose the system prompt and the model)
C9_TagIsSessionMode ==
    \A s \in sends :
        /\ messages[s.idx].mode = s.request.system.base
        /\ messages[s.idx - 1].mode = s.request.system.base
        /\ modelName(messages[s.idx].mode) = s.request.model

\* C13 as claimed: the messages of the transcript have pairwise distinct ids, so
\* that a fragment or the error text of a send, applied by id, changes the content
\* of no message but the assistant message of that send
C13_IdsDistinct ==
    /\ [](\A i, j \in 1..Len(messages) : messages[i].id = messages[j].id => i = j)
    /\ [][\A s \in sends, text \in Fragments \cup TwoFragments :
             (streamChunk(s, text) \/ streamError(s)) =>
                 \A i \in 1..Len(messages) :
                     messages'[i].content # messages[i].content => i = s.idx
         ]_vars

-----------------------------------------------------------------------------
(* Claims checked under SpecRace. *)

\* C6 as claimed: while the reply of a send is streaming, its assistant message
\* shows the concatenation of the fragments received so far for that send, and
\* when the stream ends the message shows the text pushed to the history as the
\* model entry
C6_ContentIsConcatenation ==
    /\ [](\A s \in sends : s.pc = "stream" => messages[s.idx].content = s.fullResponse)
    /\ [][\A s \in sends :
             streamEnd(s) =>
                 /\ Last(history').role = "model"
                 /\ messages'[s.idx].content = Last(history').text
         ]_vars

\* C11 as claimed: at most one exchange is in flight: while a handleSend is in
\* its reply stream or in its extraction, no other is, and no step starts a send
\* (a call of sendMessageStream) while one is in flight
C11_OneExchangeInFlight ==
    /\ [](Cardinality(sends) <= 1)
    /\ [][Started # {} => sends = {}]_vars

\* C14 as claimed: a switch to a different mode empties the history, a switch to
\* the current mode leaves it as it is, and every request holds only entries of
\* exchanges started in the mode the session is in.  The history is what the
\* requests are built from, so this is: (1) the two cases of the switch; (2) a
\* send that starts is sent in the session's mode with the history as contents;
\* (3) the reply pushed to the history when a stream ends is the reply of an
\* exchange that was sent in the mode the session is in at that moment
C14_ModeIsolation ==
    [][/\ \A mode \in AppModes :
              handleSetMode(mode) =>
                  history' = IF mode # svcMode THEN <<>> ELSE history
       /\ \A s \in Started :
              /\ s.request.system.base = svcMode'
              /\ s.request.contents = history'
       /\ \A s \in sends :
              streamEnd(s) => s.request.system.base = svcMode
      ]_vars

-----------------------------------------------------------------------------
(* Claims checked under SpecMem. *)

StoredMemory == getStoredMemory(stored)

\* C1: the stored memory, and the memory shown, have at most 12 facts and at most
\* 12 preferences
C1_MemoryCapped ==
    /\ Len(StoredMemory.facts) <= 12 /\ Len(StoredMemory.preferences) <= 12
    /\ Len(memory.facts) <= 12 /\ Len(memory.preferences) <= 12

\* C1 witness: both lists are full, and the facts are what is left of thirteen
\* distinct strings
C1_Witness ==
    /\ StoredMemory.facts = Range(2, 13)
    /\ Len(StoredMemory.preferences) = 12

NoRepeat(q) == \A i, j \in 1..Len(q) : q[i] = q[j] => i = j

\* C2: no string is twice in the stored facts, none twice in the stored
\* preferences
C2_MemoryUnique ==
    /\ NoRepeat(StoredMemory.facts) /\ NoRepeat(StoredMemory.preferences)
    /\ NoRepeat(memory.facts) /\ NoRepeat(memory.preferences)

\* C2 witness: the facts 1..11 were stored and an extraction returned a twelfth
\* string twice; the preferences 1..11 were stored and 1 was returned again
C2_Witness ==
    /\ StoredMemory.facts = Range(1, 11) \o <<13>>
    /\ StoredMemory.preferences = Range(1, 11)

\* the places of q that hold the first occurrence of their string
FirstPlaces(q) == {i \in 1..Len(q) : \A j \in 1..(i - 1) : q[j] # q[i]}

\* q at the places I, in their order
AtPlaces(q, I) ==
    [k \in 1..Cardinality(I) |->
        q[CHOOSE i \in I : Cardinality({j \in I : j < i}) = k - 1]]

FirstOccurrences(q) == AtPlaces(q, FirstPlaces(q))

\* the last n elements of q, all of q when it has fewer
LastN(q, n) ==
    LET m == IF Len(q) < n THEN Len(q) ELSE n
    IN  [k \in 1..m |-> q[Len(q) - m + k]]

\* new is a tail of old followed by strings that old does not hold
TailThenNew(old, new) ==
    \E k \in 0..Len(old) :
        /\ Len(new) >= Len(old) - k
        /\ \A i \in 1..(Len(old) - k) : new[i] = old[k + i]
        /\ \A i \in (Len(old) - k + 1)..Len(new) : new[i] \notin Elems(old)

-----------------------------------------------------------------------------
(* Claims checked under SpecHist. *)

\* C8 as claimed: the history holds at most 21 entries
C8_HistoryBounded == Len(history) <= HistoryCap + 1

\* the roles of h alternate, the first being "user"
Alternates(h) ==
    \A i \in 1..Len(h) : h[i].role = IF i % 2 = 1 THEN "user" ELSE "model"

\* C12 as claimed: the history sent with every request alternates roles, starting
\* with a user entry, and so does the history kept by the session
C12_HistoryAlternates ==
    /\ \A s \in sends : Alternates(s.request.contents)
    /\ Alternates(history)

====
